---- MODULE Spec2Model ----
(***************************************************************************)
(* Regulation tracker (src/app.py): the persisted regulations and actions, *)
(* the commands of the detail pane (regulation status edit, action Save,   *)
(* action Delete, Add Action), the client-side filter loop and the         *)
(* due-date ordering of a regulation's actions.                            *)
(*                                                                         *)
(* Nullable columns: a NULL text is the string NULL, a NULL date or        *)
(* timestamp is 0.  Dates are ordinals 1..DateMax, DateMax standing for    *)
(* date.max.  The clock is read by datetime.utcnow() and moves on with     *)
(* every committed command.                                                *)
(***************************************************************************)
EXTENDS Integers, Sequences, FiniteSets, TLC

VARIABLES
    regulations,   \* table regulations: id -> row
    actions,       \* table actions: id -> row (DOMAIN = the ids present)
    dialect,       \* storage engine selected by DATABASE_URL
    seq,           \* postgresql: last value of the actions id sequence
    clock,         \* the wall clock datetime.utcnow() reads
    form,          \* per operator: widget state of one action expander
    regs,          \* filter run: the loaded sequence of regulations
    q,             \* filter run: sidebar text query (sequence of characters)
    source,        \* filter run: sidebar source facet
    status,        \* filter run: sidebar status facet
    category,      \* filter run: sidebar category facet
    filtered,      \* filter run: the list the loop built
    alist,         \* ordering run: reg.actions as loaded
    shown          \* ordering run: the order the expanders are rendered in

dbVars     == <<regulations, actions, dialect, seq, clock>>
filterVars == <<regs, q, source, status, category, filtered>>
sortVars   == <<alist, shown>>
vars       == <<regulations, actions, dialect, seq, clock, form,
                regs, q, source, status, category, filtered, alist, shown>>

----------------------------------------------------------------------------
(* Bounds *)
MaxClock == 4      \* commands committed in one run, plus one
MaxId    == 4      \* largest action id the store hands out
DateMax  == 5      \* ordinal standing for date.max

(* NULL values *)
NULL   == "NULL"
NoDate == 0
NoTime == 0

RegStatuses    == {"Open", "In Progress", "Closed"}
ActionStatuses == {"Planned", "In Progress", "Done", "Blocked"}
RegIds         == {1, 2, 3}
ActionIds      == 1..MaxId

Today == 4

(* What an operator can type or pick in the widgets. *)
TitleInputs    == {"", "New action"}
DescInputs     == {""}
AssigneeInputs == {"x"}
DueInputs      == {Today}

----------------------------------------------------------------------------
(* Rows *)
Regulation(title, src, cat, st) ==
    [title |-> title, source |-> src, category |-> cat, status |-> st]

ActionRow(rid, title, desc, st, assignee, due, done_at) ==
    [regulation_id |-> rid, title |-> title, description |-> desc,
     status |-> st, assignee |-> assignee, due_date |-> due,
     completed_at |-> done_at]

(* Variant of the INSERT: no column default for status. *)
Action_noDefault(rid, title, desc, assignee, due) ==
    ActionRow(rid, title, desc, NULL, assignee, due, NoTime)

(* Column defaults applied on INSERT: status "Planned", completed_at NULL. *)
Action(rid, title, desc, assignee, due) ==
    ActionRow(rid, title, desc, "Planned", assignee, due, NoTime)

seed_regulations ==
    (1 :> Regulation("EU MRV 2025 Amendments", "EU", "Environmental", "In Progress"))
 @@ (2 :> Regulation("IMO MARPOL Annex VI NOx Tier III Guidance", "IMO", "Technical", "Open"))
 @@ (3 :> Regulation("USCG Policy Letter 25-04 on E-Navigation Logs", "USCG", "Navigation", "Open"))

seed_actions ==
    (1 :> ActionRow(1, "Update data pipeline for CH4",
                    "Include methane reporting in MRV extracts",
                    "In Progress", "A. Smith", 1, NoTime))
 @@ (2 :> ActionRow(1, "Crew circular MRV changes",
                    "Ops circular outlining new monitoring plan",
                    "Planned", "M. Lopez", 2, NoTime))
 @@ (3 :> ActionRow(2, "Assess retrofit feasibility",
                    "Check Tier III compliance options for 2012-2016 builds",
                    "Planned", "J. Kim", 3, NoTime))

Dialects == {"sqlite", "postgresql"}

----------------------------------------------------------------------------
(* Primary key of a new actions row.  sqlite: id INTEGER PRIMARY KEY is    *)
(* the rowid, one more than the largest rowid in the table.  postgresql:   *)
(* SERIAL, the next value of a sequence that never goes back.              *)
MaxOf(S) == IF S = {} THEN 0 ELSE CHOOSE m \in S : \A x \in S : x <= m

NewId == IF dialect = "sqlite" THEN MaxOf(DOMAIN actions) + 1 ELSE seq + 1

utcnow == clock

----------------------------------------------------------------------------
(* Variants of the Save assignments: completed_at written only on Done;  *)
(* the assignee left as loaded.                                           *)
applyActionEdit_keepStamp(a, new_title, new_desc, new_status, new_assignee, new_due, done, now) ==
    LET st == IF done THEN "Done" ELSE new_status IN
    [a EXCEPT !.title = new_title,
              !.description = new_desc,
              !.status = st,
              !.assignee = new_assignee,
              !.due_date = new_due,
              !.completed_at = IF st = "Done" THEN now ELSE @]

applyActionEdit_keepAssignee(a, new_title, new_desc, new_status, new_assignee, new_due, done, now) ==
    LET st == IF done THEN "Done" ELSE new_status IN
    [a EXCEPT !.title = new_title,
              !.description = new_desc,
              !.status = st,
              !.due_date = new_due,
              !.completed_at = IF st = "Done" THEN now ELSE NoTime]

(* Action Save: lines 225-231, the assignments to the loaded row. *)
applyActionEdit(a, new_title, new_desc, new_status, new_assignee, new_due, done, now) ==
    LET st == IF done THEN "Done" ELSE new_status IN
    [a EXCEPT !.title = new_title,
              !.description = new_desc,
              !.status = st,
              !.assignee = new_assignee,
              !.due_date = new_due,
              !.completed_at = IF st = "Done" THEN now ELSE NoTime]

(* s.add(a); s.commit() *)
SaveCommit(id, new_title, new_desc, new_status, new_assignee, new_due, done) ==
    /\ id \in DOMAIN actions
    /\ clock < MaxClock
    /\ clock' = clock + 1
    /\ actions' = [actions EXCEPT ![id] =
           applyActionEdit(@, new_title, new_desc, new_status, new_assignee,
                           new_due, done, utcnow)]
    /\ UNCHANGED <<regulations, dialect, seq>>

(* Variant of the delete: every action of the same regulation goes. *)
DeleteCommit_cascade(id) ==
    /\ id \in DOMAIN actions
    /\ clock < MaxClock
    /\ actions' = [i \in {j \in DOMAIN actions :
                            actions[j].regulation_id # actions[id].regulation_id}
                     |-> actions[i]]
    /\ clock' = clock + 1
    /\ UNCHANGED <<regulations, dialect, seq>>

(* s.delete(a); s.commit() *)
DeleteCommit(id) ==
    /\ id \in DOMAIN actions
    /\ clock < MaxClock
    /\ actions' = [i \in DOMAIN actions \ {id} |-> actions[i]]
    /\ clock' = clock + 1
    /\ UNCHANGED <<regulations, dialect, seq>>

(* Add Action form: Action(regulation_id=reg.id, ...); s.add; s.commit *)
AddCommit(r, atitle, adesc, aassignee, adue) ==
    /\ r \in DOMAIN regulations
    /\ clock < MaxClock
    /\ NewId <= MaxId
    /\ actions' = (NewId :> Action(r, atitle, adesc, aassignee, adue)) @@ actions
    /\ seq' = IF dialect = "sqlite" THEN seq ELSE seq + 1
    /\ clock' = clock + 1
    /\ UNCHANGED <<regulations, dialect>>

(* Variant of the status edit: closing a regulation marks its actions Done. *)
StatusCommit_derive(r, new_status) ==
    /\ r \in DOMAIN regulations
    /\ clock < MaxClock
    /\ new_status \in RegStatuses
    /\ new_status # regulations[r].status
    /\ regulations' = [regulations EXCEPT ![r].status = new_status]
    /\ actions' = [i \in DOMAIN actions |->
                     IF actions[i].regulation_id = r /\ new_status = "Closed"
                     THEN [actions[i] EXCEPT !.status = "Done", !.completed_at = utcnow]
                     ELSE actions[i]]
    /\ clock' = clock + 1
    /\ UNCHANGED <<dialect, seq>>

(* Regulation status selectbox: options are the three legal values; the   *)
(* row is written only when the selection differs from the stored status. *)
StatusCommit(r, new_status) ==
    /\ r \in DOMAIN regulations
    /\ clock < MaxClock
    /\ new_status \in RegStatuses
    /\ new_status # regulations[r].status
    /\ regulations' = [regulations EXCEPT ![r].status = new_status]
    /\ clock' = clock + 1
    /\ UNCHANGED <<actions, dialect, seq>>

----------------------------------------------------------------------------
(* sorted(reg.actions, key=lambda x: (x.due_date or date.max)): a stable  *)
(* sort on the key, here by insertion after every element whose key is   *)
(* not larger.                                                            *)
key(x) == IF x.due_date = NoDate THEN DateMax ELSE x.due_date

RECURSIVE insert(_, _)
insert(x, s) ==
    IF s = <<>> THEN <<x>>
    ELSE IF key(Head(s)) <= key(x) THEN <<Head(s)>> \o insert(x, Tail(s))
    ELSE <<x>> \o s

RECURSIVE sorted(_)
sorted(s) ==
    IF s = <<>> THEN <<>>
    ELSE insert(s[Len(s)], sorted(SubSeq(s, 1, Len(s) - 1)))

(* reg.actions: the rows of table acts whose regulation_id is r, by id. *)
RECURSIVE rows(_, _, _)
rows(acts, r, n) ==
    IF n = 0 THEN <<>>
    ELSE IF n \in DOMAIN acts /\ acts[n].regulation_id = r
         THEN Append(rows(acts, r, n - 1), [id |-> n, due_date |-> acts[n].due_date])
         ELSE rows(acts, r, n - 1)

reg_actions(acts, r) == rows(acts, r, MaxOf(DOMAIN acts))

(* The expanders of the detail pane of regulation r, in display order. *)
getRegulationDetail(r) == sorted(reg_actions(actions, r))

----------------------------------------------------------------------------
Operators == {1, 2}

NoForm == [id |-> 0]

InitDb ==
    /\ regulations = seed_regulations
    /\ actions = seed_actions
    /\ dialect \in Dialects
    /\ seq = IF dialect = "sqlite" THEN 0 ELSE 3
    /\ clock = 1

IdleFilter ==
    /\ regs = <<>>
    /\ q = <<>>
    /\ source = "All"
    /\ status = "All"
    /\ category = "All"
    /\ filtered = <<>>

IdleSort ==
    /\ alist = <<>>
    /\ shown = <<>>

Init ==
    /\ InitDb
    /\ form = [o \in Operators |-> NoForm]
    /\ IdleFilter
    /\ IdleSort

(* The commands of one operator, with the values read from the widgets. *)
setRegulationStatus(r, new_status) ==
    /\ StatusCommit(r, new_status)
    /\ UNCHANGED <<form, filterVars, sortVars>>

editAction(id, new_title, new_desc, new_status, new_assignee, new_due, done) ==
    /\ SaveCommit(id, new_title, new_desc, new_status, new_assignee, new_due, done)
    /\ UNCHANGED <<form, filterVars, sortVars>>

deleteAction(id) ==
    /\ DeleteCommit(id)
    /\ UNCHANGED <<form, filterVars, sortVars>>

addAction(r, atitle, adesc, aassignee, adue) ==
    /\ AddCommit(r, atitle, adesc, aassignee, adue)
    /\ UNCHANGED <<form, filterVars, sortVars>>

Next ==
    \/ \E r \in RegIds, s \in RegStatuses : setRegulationStatus(r, s)
    \/ \E id \in ActionIds, t \in TitleInputs, d \in DescInputs,
          s \in ActionStatuses, a \in AssigneeInputs, due \in DueInputs,
          done \in BOOLEAN : editAction(id, t, d, s, a, due, done)
    \/ \E id \in ActionIds : deleteAction(id)
    \/ \E r \in RegIds, t \in TitleInputs, d \in DescInputs,
          a \in AssigneeInputs, due \in DueInputs : addAction(r, t, d, a, due)

Spec == Init /\ [][Next]_vars

----------------------------------------------------------------------------
(* Two operators on the same store.  Each browser session keeps the       *)
(* widget values of the expander it works in: filled from the row when    *)
(* the detail pane is rendered, changed by the operator, handed to the    *)
(* Save handler on the run the Save button triggers.  stale and saved     *)
(* record the history of the form: another session committed the action   *)
(* since this form was filled; this session committed this form.          *)
Widgets(id, a) ==
    [id |-> id,
     regulation_id |-> a.regulation_id,
     title |-> a.title,
     description |-> IF a.description = NULL THEN "" ELSE a.description,
     status |-> IF a.status = NULL THEN "Planned" ELSE a.status,
     assignee |-> IF a.assignee = NULL THEN "" ELSE a.assignee,
     due_date |-> IF a.due_date = NoDate THEN Today ELSE a.due_date,
     done |-> (a.status = "Done"),
     stale |-> FALSE,
     saved |-> FALSE]

(* The forms an operator can submit from form f: f as it stands, or f     *)
(* with one widget changed.                                               *)
WidgetEdits(f) ==
    {f}
    \cup {[f EXCEPT !.title = t] : t \in TitleInputs}
    \cup {[f EXCEPT !.description = d] : d \in DescInputs}
    \cup {[f EXCEPT !.status = s] : s \in ActionStatuses}
    \cup {[f EXCEPT !.assignee = a] : a \in AssigneeInputs}
    \cup {[f EXCEPT !.due_date = d] : d \in DueInputs}
    \cup {[f EXCEPT !.done = b] : b \in BOOLEAN}

(* Both operators have selected the first seeded regulation. *)
selected_id == 1

(* The detail pane of the action's regulation is rendered for operator o, *)
(* who opens the expander of action id (or has it open already).          *)
Load(o, id) ==
    /\ id \in DOMAIN actions
    /\ actions[id].regulation_id = selected_id
    /\ form[o].id \in {0, id}
    /\ form' = [form EXCEPT ![o] = Widgets(id, actions[id])]
    /\ UNCHANGED <<dbVars, filterVars, sortVars>>

(* The expander of the form is on screen: the row exists in the selected  *)
(* regulation.                                                            *)
Rendered(f) ==
    /\ f.id \in DOMAIN actions
    /\ actions[f.id].regulation_id = f.regulation_id

(* Operator o presses Save with the widgets at sub, one of               *)
(* WidgetEdits(form[o]).                                                  *)
SaveForm(o, sub) ==
    /\ form[o] # NoForm
    /\ Rendered(form[o])
    /\ form' = [p \in Operators |->
                  IF p = o THEN [sub EXCEPT !.saved = TRUE]
                  ELSE IF form[p].id = sub.id THEN [form[p] EXCEPT !.stale = TRUE]
                  ELSE form[p]]
    /\ SaveCommit(sub.id, sub.title, sub.description, sub.status, sub.assignee,
                  sub.due_date, sub.done)
    /\ UNCHANGED <<filterVars, sortVars>>

NextRace ==
    \/ \E o \in Operators, id \in ActionIds : Load(o, id)
    \/ \E o \in Operators :
          /\ form[o] # NoForm
          /\ \E sub \in WidgetEdits(form[o]) : SaveForm(o, sub)

InitRace ==
    /\ Init
    /\ dialect = "sqlite"

SpecRace == InitRace /\ [][NextRace]_vars

----------------------------------------------------------------------------
(* Ordering run: the action list of one regulation, any due dates, an     *)
(* absent due date included; the detail pane renders it, and renders the  *)
(* rendered order again.                                                  *)
MaxLen == 3

DueDates == 0..DateMax

ActionLists ==
    UNION {{[i \in 1..n |-> [id |-> i, due_date |-> d[i]]] : d \in [1..n -> DueDates]}
           : n \in 0..MaxLen}

InitSort ==
    /\ InitDb
    /\ dialect = "sqlite"
    /\ form = [o \in Operators |-> NoForm]
    /\ IdleFilter
    /\ alist \in ActionLists
    /\ shown = <<>>

Render ==
    /\ shown = <<>>
    /\ alist # <<>>
    /\ shown' = sorted(alist)
    /\ UNCHANGED <<alist, dbVars, form, filterVars>>

RenderAgain ==
    /\ shown # <<>>
    /\ alist' = shown
    /\ shown' = sorted(shown)
    /\ UNCHANGED <<dbVars, form, filterVars>>

NextSort == Render \/ RenderAgain

SpecSort == InitSort /\ [][NextSort]_vars

----------------------------------------------------------------------------
(* Filter run: texts are sequences of characters; str.lower() maps the    *)
(* upper-case letters to their lower-case ones.  A NULL text column is    *)
(* the one-element sequence NullText.                                     *)
MaxRegs == 2

NullText == <<NULL>>

lower_char(c) == CASE c = "A" -> "a" [] c = "B" -> "b" [] OTHER -> c

(* Variant of str.lower(): the text as it is. *)
lower_asis(s) == s

lower(s) == [i \in 1..Len(s) |-> lower_char(s[i])]

(* x or "" *)
or_empty(x) == IF x = NullText THEN <<>> ELSE x

(* str.find: the lowest index where sub occurs in s, -1 when it does not *)
find(s, sub) ==
    LET at == {i \in 0..(Len(s) - Len(sub)) : SubSeq(s, i + 1, i + Len(sub)) = sub}
    IN  IF at = {} THEN -1 ELSE CHOOSE i \in at : \A j \in at : i <= j

(* One pass of the loop body: TRUE when r is appended to filtered. *)
keeps(r, ql, src, st, cat) ==
    /\ (ql # <<>> =>
          \/ find(lower(or_empty(r.title)), ql) >= 0
          \/ find(lower(or_empty(r.summary)), ql) >= 0
          \/ find(lower(or_empty(r.jurisdiction)), ql) >= 0)
    /\ ~(src # "All" /\ r.source # src)
    /\ ~(st # "All" /\ r.status # st)
    /\ ~(cat # "All" /\ r.category # cat)

RECURSIVE filter_loop(_, _, _, _, _)
filter_loop(rs, ql, src, st, cat) ==
    IF rs = <<>> THEN <<>>
    ELSE LET rest == filter_loop(SubSeq(rs, 1, Len(rs) - 1), ql, src, st, cat)
             r == rs[Len(rs)]
         IN  IF keeps(r, ql, src, st, cat) THEN Append(rest, r) ELSE rest

(* The list the script builds from the sidebar widgets. *)
listRegulations(rs, query, src, st, cat) ==
    filter_loop(rs, lower(query), src, st, cat)

(* Loaded rows: title/summary/jurisdiction with and without a match in  *)
(* each column, NULL columns included, and three facet combinations.    *)
Texts ==
    {<<(<<"A", "b">>), NullText, NullText>>,
     <<(<<"b">>), (<<"a", "B">>), NullText>>,
     <<(<<"b">>), NullText, (<<"B", "a">>)>>,
     <<(<<"b">>), NullText, NullText>>}

Facets ==
    {<<"EU", "Open", "Environmental">>,
     <<NULL, "Closed", "Technical">>,
     <<"IMO", "Open", NULL>>}

RegRows ==
    {[title |-> t[1], summary |-> t[2], jurisdiction |-> t[3],
      source |-> f[1], status |-> f[2], category |-> f[3]]
       : t \in Texts, f \in Facets}

Queries == {<<>>, <<"a">>, <<"A", "B">>, <<"b", "a">>}

(* Sidebar options: "All" plus the distinct non-NULL values in the table. *)
source_options   == {"All"} \cup ({regs[i].source : i \in 1..Len(regs)} \ {NULL})
status_options   == {"All", "Open", "In Progress", "Closed"}
category_options == {"All"} \cup ({regs[i].category : i \in 1..Len(regs)} \ {NULL})

InitFilter ==
    /\ InitDb
    /\ dialect = "sqlite"
    /\ form = [o \in Operators |-> NoForm]
    /\ IdleSort
    /\ regs \in UNION {[1..n -> RegRows] : n \in 0..MaxRegs}
    /\ q = <<>>
    /\ source = "All"
    /\ status = "All"
    /\ category = "All"
    /\ filtered = listRegulations(regs, <<>>, "All", "All", "All")

(* A sidebar widget changes and the script runs again. *)
Rerun(nq, src, st, cat) ==
    /\ q' = nq
    /\ source' = src
    /\ status' = st
    /\ category' = cat
    /\ filtered' = listRegulations(regs, nq, src, st, cat)
    /\ UNCHANGED <<regs, dbVars, form, sortVars>>

SetQuery    == \E nq \in Queries : Rerun(nq, source, status, category)
SetSource   == \E v \in source_options : Rerun(q, v, status, category)
SetStatus   == \E v \in status_options : Rerun(q, source, v, category)
SetCategory == \E v \in category_options : Rerun(q, source, status, v)

NextFilter == SetQuery \/ SetSource \/ SetStatus \/ SetCategory

SpecFilter == InitFilter /\ [][NextFilter]_vars

----------------------------------------------------------------------------
(* Properties of the command model (Spec). *)

(* C1: in every reachable state every action has completed_at non-NULL    *)
(* if and only if its status is Done.                                     *)
C1_CompletedIffDone ==
    \A i \in DOMAIN actions :
        (actions[i].completed_at # NoTime) <=> (actions[i].status = "Done")

(* C1 witness: one edited action is Done and stamped, another edited      *)
(* action is not Done and has no stamp.                                   *)
C1_Witness ==
    \E i, j \in DOMAIN actions :
        /\ actions[i].status = "Done" /\ actions[i].completed_at # NoTime
        /\ actions[j].assignee = "x" /\ actions[j].status = "Blocked"
        /\ actions[j].completed_at = NoTime

(* C5 as claimed: once an action is deleted, no action with its id ever   *)
(* exists again (ids 1..3 are the seeded ones, absent only when deleted). *)
C5_NeverReappears ==
    [][\A i \in DOMAIN seed_actions :
          i \notin DOMAIN actions => i \notin DOMAIN actions']_vars

(* C5 amended: the step that removes action i removes it from the detail  *)
(* view of its regulation and changes no other action and no regulation;  *)
(* an absent id comes back only by an added row, only when it is larger   *)
(* than every id still present, and never under a postgresql sequence.    *)
C5_DeletePermanent ==
    [][\A i \in ActionIds :
          /\ (i \in DOMAIN actions /\ i \notin DOMAIN actions') =>
                /\ \A r \in RegIds :
                      r = actions[i].regulation_id =>
                         LET view == sorted(reg_actions(actions', r))
                         IN  \A k \in 1..Len(view) : view[k].id # i
                /\ DOMAIN actions' = DOMAIN actions \ {i}
                /\ \A j \in DOMAIN actions' : actions'[j] = actions[j]
                /\ regulations' = regulations
          /\ (i \notin DOMAIN actions /\ i \in DOMAIN actions') =>
                /\ DOMAIN actions' = DOMAIN actions \cup {i}
                /\ \A j \in DOMAIN actions : actions'[j] = actions[j]
                /\ i > MaxOf(DOMAIN actions)
                /\ (dialect = "postgresql" => i > seq)]_vars

(* C5 witness: action 2 was deleted, action 1 of the same regulation was  *)
(* edited afterwards or before, and action 2 is not in the detail view.   *)
C5_Witness ==
    /\ 2 \notin DOMAIN actions
    /\ 1 \in DOMAIN actions /\ actions[1].assignee = "x"
    /\ Len(getRegulationDetail(1)) = 1

(* C6: Add Action creates exactly one row, owned by the regulation, with  *)
(* status Planned, completed_at NULL and the title, description, assignee *)
(* and due date given; the rows that existed are unchanged.               *)
C6_AddCreatesPlanned ==
    [][\A r \in RegIds, t \in TitleInputs, d \in DescInputs,
          a \in AssigneeInputs, due \in DueInputs :
          addAction(r, t, d, a, due) =>
            LET new == DOMAIN actions' \ DOMAIN actions
            IN  /\ Cardinality(new) = 1
                /\ \A i \in new :
                      /\ actions'[i].regulation_id = r
                      /\ actions'[i].status = "Planned"
                      /\ actions'[i].completed_at = NoTime
                      /\ actions'[i].title = t
                      /\ actions'[i].description = d
                      /\ actions'[i].assignee = a
                      /\ actions'[i].due_date = due
                /\ \A j \in DOMAIN actions :
                      j \in DOMAIN actions' /\ actions'[j] = actions[j]]_vars

(* C6 witness: a fourth action was added to regulation 2. *)
C6_Witness ==
    /\ 4 \in DOMAIN actions
    /\ actions[4].regulation_id = 2
    /\ actions[4].status = "Planned"
    /\ actions[4].title = "New action"
    /\ \A j \in DOMAIN seed_actions : j \in DOMAIN actions /\ actions[j] = seed_actions[j]

(* C7 as claimed: a Save or an Add with an empty title changes no row. *)
C7_EmptyTitleRejected ==
    [][\A d \in DescInputs, a \in AssigneeInputs, due \in DueInputs :
          /\ \A id \in ActionIds, s \in ActionStatuses, done \in BOOLEAN :
                editAction(id, "", d, s, a, due, done) => actions' = actions
          /\ \A r \in RegIds :
                addAction(r, "", d, a, due) => actions' = actions]_vars

(* C8: the status edit changes the status column of the one regulation    *)
(* and nothing else; Save, Delete and Add change no regulation.           *)
C8_StatusIndependent ==
    [][/\ \A r \in RegIds, s \in RegStatuses :
             setRegulationStatus(r, s) =>
                /\ actions' = actions
                /\ \A x \in RegIds \ {r} : regulations'[x] = regulations[x]
                /\ regulations'[r] = [regulations[r] EXCEPT !.status = s]
       /\ actions' # actions => regulations' = regulations]_vars

(* C8 witness: regulation 1 was closed while its action 2 stays Planned,  *)
(* and its action 1 was marked Done while regulation 1 stays as set.      *)
C8_Witness ==
    /\ regulations[1].status = "Closed"
    /\ 1 \in DOMAIN actions /\ actions[1].status = "Done"
    /\ 2 \in DOMAIN actions /\ actions[2] = seed_actions[2]
    /\ regulations[2] = seed_regulations[2]

(* C9 as claimed: a Save that keeps an action Done leaves completed_at    *)
(* as it was.                                                             *)
C9_StampKept ==
    [][\A i \in DOMAIN actions :
          (i \in DOMAIN actions' /\ actions[i].status = "Done"
             /\ actions'[i].status = "Done")
          => actions'[i].completed_at = actions[i].completed_at]_vars

----------------------------------------------------------------------------
(* Properties of the two-operator model (SpecRace). *)

Submitted(f) ==
    [title |-> f.title, description |-> f.description,
     status |-> IF f.done THEN "Done" ELSE f.status,
     assignee |-> f.assignee, due_date |-> f.due_date]

Editable(a) ==
    [title |-> a.title, description |-> a.description, status |-> a.status,
     assignee |-> a.assignee, due_date |-> a.due_date]

(* C10: a Save is never refused because another session committed the    *)
(* action in between, and after it the row carries the five editable      *)
(* fields exactly as that session's form held them.                       *)
C10_LastWriterWins ==
    [][/\ \A o \in Operators :
            (form[o] # NoForm /\ Rendered(form[o]) /\ clock < MaxClock)
            => ENABLED SaveForm(o, form[o])
       /\ \A o \in Operators :
            form[o] # NoForm =>
              \A sub \in WidgetEdits(form[o]) :
                 SaveForm(o, sub) =>
                    /\ sub.id \in DOMAIN actions'
                    /\ Editable(actions'[sub.id]) = Submitted(sub)]_vars

(* C10 witness: both operators filled their form from the same action     *)
(* before either saved, both saved, and the row holds operator 2's form:  *)
(* operator 1's title is gone, the assignee is the one operator 2 read    *)
(* before operator 1's commit.                                            *)
C10_Witness ==
    /\ form[1] # NoForm /\ form[2] # NoForm
    /\ form[1].id = 1 /\ form[2].id = 1
    /\ form[1].saved /\ form[1].stale
    /\ form[2].saved /\ form[2].stale
    /\ form[1].title = "New action" /\ form[1].assignee = "x"
    /\ form[2].title = seed_actions[1].title
    /\ form[2].assignee = seed_actions[1].assignee
    /\ Editable(actions[1]) = Submitted(form[2])

----------------------------------------------------------------------------
(* Properties of the ordering run (SpecSort). *)

Dated(x) == x.due_date # NoDate

(* C4 as claimed: the rendered order is a permutation of the list, by due *)
(* date ascending, every undated action after every dated one, equal or   *)
(* both-undated actions in their original order, and rendering the        *)
(* rendered order changes nothing.                                        *)
C4_Projection ==
    Len(shown) = Len(alist) =>
       /\ \A x \in {alist[i] : i \in 1..Len(alist)} :
             Cardinality({i \in 1..Len(alist) : alist[i] = x})
               = Cardinality({i \in 1..Len(shown) : shown[i] = x})
       /\ \A i, j \in 1..Len(shown) :
             i < j =>
                /\ (Dated(shown[i]) /\ Dated(shown[j]))
                      => shown[i].due_date <= shown[j].due_date
                /\ ~(~Dated(shown[i]) /\ Dated(shown[j]))
       /\ \A i, j \in 1..Len(alist) :
             (i < j /\ alist[i].due_date = alist[j].due_date) =>
                \E k, l \in 1..Len(shown) :
                   k < l /\ shown[k] = alist[i] /\ shown[l] = alist[j]
       /\ sorted(shown) = shown

----------------------------------------------------------------------------
(* Properties of the filter run (SpecFilter). *)

Fold(s) ==
    [i \in 1..Len(s) |->
        IF s[i] = "A" THEN "a" ELSE IF s[i] = "B" THEN "b" ELSE s[i]]

Text(x) == IF x = NullText THEN <<>> ELSE x

Contains(s, sub) ==
    \E i \in 0..(Len(s) - Len(sub)) : \A k \in 1..Len(sub) : s[i + k] = sub[k]

Passes(r) ==
    /\ q # <<>> =>
          \/ Contains(Fold(Text(r.title)), Fold(q))
          \/ Contains(Fold(Text(r.summary)), Fold(q))
          \/ Contains(Fold(Text(r.jurisdiction)), Fold(q))
    /\ source # "All" => r.source = source
    /\ status # "All" => r.status = status
    /\ category # "All" => r.category = category

Retained == {i \in 1..Len(regs) : Passes(regs[i])}

(* the k-th smallest index retained *)
Nth(k) == CHOOSE i \in Retained : Cardinality({j \in Retained : j <= i}) = k

(* C3: the list built is the subsequence, in load order, of the rows that *)
(* pass every active predicate; with an empty query and the three facets  *)
(* at "All" it is the whole loaded sequence.                              *)
C3_FilterSubsequence ==
    /\ Len(filtered) = Cardinality(Retained)
    /\ \A k \in 1..Len(filtered) : filtered[k] = regs[Nth(k)]
    /\ (q = <<>> /\ source = "All" /\ status = "All" /\ category = "All")
          => filtered = regs

(* C3 witness: an upper-case query and a facet are active, two rows are   *)
(* loaded, the second one alone is retained, matching on its summary      *)
(* while its jurisdiction is NULL.                                        *)
C3_Witness ==
    /\ q = <<"A", "B">>
    /\ status = "Open"
    /\ Len(regs) = 2
    /\ filtered = <<regs[2]>>
    /\ regs[2].summary = <<"a", "B">>
    /\ regs[2].jurisdiction = NullText
    /\ regs[1].status = "Open"

====
